---- MODULE Spec2Model ----
(***************************************************************************)
(* UPF extension of ntn-stack: the routing table                           *)
(* (routing_table_manager.c) and the synchronisation engine                *)
(* (sync_algorithm_bridge.c), called from several threads.                 *)
(*                                                                         *)
(* The two translation units share no state and never call each other, so  *)
(* each gets a specification of its own over the same variables:           *)
(*   RoutingSpec  threads calling update_routing_entry and                 *)
(*                cleanup_routing_table;                                   *)
(*   Spec         threads calling the sync_algorithm_* entry points;       *)
(*   CoreSpec     Spec without the entry points that take no lock and      *)
(*                write nothing shared;                                    *)
(*   RegSpec      the scenario "N concurrent registers, then N concurrent  *)
(*                unregisters, then get_status" on an initialized engine;  *)
(*   LockSpec     threads calling into both units under fair scheduling,   *)
(*                for what concerns the two mutexes.                       *)
(***************************************************************************)
EXTENDS Integers, Sequences, FiniteSets, TLC

\* ------------------------------------------------------------- bounds
\* Threads of the register/unregister scenario (the N of RegSpec).
NReg == 3
\* Largest value of the clock read by time(NULL).
MaxTime == 1
\* Entries the heap has room for: malloc fails once the table holds this many.
MaxEntries == 2
\* Calls that raise a counter are not started once it has reached this value.
MaxCount == 1

\* ------------------------------------------------- program constants
SYNC_SUCCESS == 0
SYNC_ERROR_INVALID_PARAM == -1
SYNC_ERROR_UE_NOT_FOUND == -2
SYNC_ERROR_MEMORY_ALLOCATION == -6
\* sizeof(entry->ue_id)
UE_ID_SIZE == 64
\* The counters are uint32_t (total_ue_count) and uint64_t (the handover
\* counters); they wrap after 2^32 and 2^64 increments, which no run within
\* MaxCount reaches, so ++ is + 1 here.

VARIABLES
    g_initialized,      \* sync_algorithm_bridge.c:8
    g_mutex,            \* sync_algorithm_bridge.c:9, 0 = free, else the holder
    g_status,           \* sync_algorithm_bridge.c:10
    g_routing_table,    \* routing_table_manager.c:16, the list from its head
    g_routing_mutex,    \* routing_table_manager.c:17, 0 = free, else the holder
    now,                \* the latest value time(NULL) has returned
    th,                 \* per thread: the call it is in and where
    registry,           \* history: ids registered and not unregistered since init
    net,                \* history: successful registers minus unregisters since init
    floored             \* history: successful unregisters that found the count 0

vars == <<g_initialized, g_mutex, g_status, g_routing_table, g_routing_mutex,
          now, th, registry, net, floored>>

engineVars == <<g_initialized, g_mutex, g_status, registry, net, floored>>
routingVars == <<g_routing_table, g_routing_mutex>>

\* Spec and RoutingSpec have two threads calling concurrently; RegSpec has NReg.
Callers == {1, 2}
Threads == Callers \cup (1 .. NReg)
Times == 0 .. MaxTime

Min(a, b) == IF a < b THEN a ELSE b

\* ------------------------------------------------------------ strings
\* A C string is the sequence of its characters before the terminator; a
\* const char * argument is either the null pointer or points to a string.
NullPtr == [null |-> TRUE, s |-> <<>>]
Str(chars) == [null |-> FALSE, s |-> chars]
Rep(c, n) == [i \in 1 .. n |-> c]

\* strncpy(dst, src, n); dst[n] = '\0' with n = sizeof(dst) - 1: dst holds the
\* first n characters of src.
Strncpy(src, n) == SubSeq(src, 1, Min(Len(src), n))

\* strcmp(a, b) == 0
StrEq(a, b) == a = b

\* Subscriber ids passed to the routing table: the empty string, a short id,
\* one that fills the key buffer exactly (UE_ID_SIZE - 1 characters) and one
\* that is one character longer.
IdEmpty == <<>>
IdA == <<"a">>
IdFull == Rep("x", UE_ID_SIZE - 1)
IdLong == Rep("x", UE_ID_SIZE)
RouteIds == {IdEmpty, IdA, IdFull, IdLong}
RouteArgs == {NullPtr} \cup {Str(s) : s \in RouteIds}
\* (gnb_ip, gnb_port) pairs the callers pass; the two differ in both fields.
Endpoints == {<<1, 1>>, <<2, 2>>}

\* Arguments of the engine's callers: subscriber ids (the ue_id of the
\* ue_context_t passed to register), a target satellite, output pointers
\* (null or valid), the parameters of set_parameters by their sign, max_events.
Ue(i) == Str(<<"u", i>>)
UeArgs == {NullPtr, Ue(1)}
SatArgs == {NullPtr, Str(<<"s">>)}
PtrArgs == {"null", "valid"}
\* (delta_t, binary_search_precision)
ParamArgs == {<<1, 1>>, <<-1, 1>>, <<0, 1>>, <<1, 0>>}
\* (max_events, actual_count)
RecentArgs == {<<1, "valid">>, <<0, "valid">>, <<1, "null">>}

\* ------------------------------------------------------------ threads
\* op: the entry point the thread is in; pc: its position in it
\*   "idle"   in no call
\*   "lock"   at pthread_mutex_lock
\*   "cs"     holding the mutex, before the body
\*   "copy"   holding the mutex, half way through the memcpy of get_status
\*   "body"   in a function that takes no lock
\*   "ret"    returned: ret is the result, out what was written through the
\*            output pointer, msg the line printed
\* a1, a2, a3: the arguments; un: the engine was uninitialized when the call
\* tested g_initialized or, having no test, ran (history).
\* The test that opens a function reads its arguments and at most
\* g_initialized, so the call and the test are one step. The read of
\* g_initialized is made without g_mutex and races with the writes of init
\* and cleanup: it yields the value before or after the write, which is the
\* choice of where this step falls among the other threads' steps.
NoArg == "-"
NoOut == "-"
Idle == [op |-> "none", pc |-> "idle", a1 |-> NoArg, a2 |-> NoArg, a3 |-> NoArg,
         ret |-> 0, out |-> NoOut, msg |-> "", un |-> FALSE]

Frame(o, p, x, y, z) ==
    [op |-> o, pc |-> p, a1 |-> x, a2 |-> y, a3 |-> z,
     ret |-> 0, out |-> NoOut, msg |-> "", un |-> ~g_initialized]

\* The thread calls o with arguments x, y, z and stands at its first position.
Invoke(t, o, p, x, y, z) == th' = [th EXCEPT ![t] = Frame(o, p, x, y, z)]

\* The thread's call returns r, having written o and printed m; its arguments
\* are gone with its frame.
Returned(f, r, o, m) ==
    [f EXCEPT !.pc = "ret", !.ret = r, !.out = o, !.msg = m,
              !.a1 = NoArg, !.a2 = NoArg, !.a3 = NoArg]

At(t, o, p) == th[t].op = o /\ th[t].pc = p

\* time(NULL) returns tm: the clock never runs backwards.
Time(tm) == tm \in now .. MaxTime /\ now' = tm

\* ------------------------------------------------------ routing table
\* Index of the first entry the scan of update_routing_entry stops at
\* (strcmp(entry->ue_id, ue_id) == 0), 0 when the scan reaches the end.
FindEntry(table, id) ==
    IF \E i \in 1 .. Len(table) : StrEq(table[i].ue_id, id)
    THEN CHOOSE i \in 1 .. Len(table) :
            /\ StrEq(table[i].ue_id, id)
            /\ \A j \in 1 .. (i - 1) : ~StrEq(table[j].ue_id, id)
    ELSE 0

\* The overwrite that forgets the port.
UpdatedEntryNoPort(e, ip, port, tm) ==
    [e EXCEPT !.gnb_ip = ip, !.last_update = tm]

\* The entry a match is overwritten to.
UpdatedEntry(e, ip, port, tm) ==
    [e EXCEPT !.gnb_ip = ip, !.gnb_port = port, !.last_update = tm]

\* The entry malloc'ed for an id the scan did not find.
NewEntry(id, ip, port, tm) ==
    [ue_id |-> Strncpy(id, UE_ID_SIZE - 1), gnb_ip |-> ip, gnb_port |-> port,
     last_update |-> tm]

\* The table after update_routing_entry's body found its match at i.
TableUpdate(table, i, ip, port, tm) ==
    [table EXCEPT ![i] = UpdatedEntry(table[i], ip, port, tm)]

\* The insertion that forgets entry->next = g_routing_table.
TableInsertAlone(table, id, ip, port, tm) ==
    <<NewEntry(id, ip, port, tm)>>

\* The table after update_routing_entry's body linked a new entry at the head.
TableInsert(table, id, ip, port, tm) ==
    <<NewEntry(id, ip, port, tm)>> \o table

\* update_routing_entry(ue_id, gnb_ip, gnb_port) is called:
\* if (!ue_id) return SYNC_ERROR_INVALID_PARAM;
RouteCall(t) ==
    /\ th[t].pc = "idle"
    /\ \E id \in RouteArgs, ep \in Endpoints :
          LET f == Frame("update_routing_entry", "lock", id, ep[1], ep[2])
          IN  th' = [th EXCEPT ![t] =
                        IF id.null
                        THEN Returned(f, SYNC_ERROR_INVALID_PARAM, NoOut, "")
                        ELSE f]
    /\ UNCHANGED <<engineVars, routingVars, now>>

\* pthread_mutex_lock(&g_routing_mutex)
RouteLock(t) ==
    /\ th[t].op \in {"update_routing_entry", "cleanup_routing_table"}
    /\ th[t].pc = "lock"
    /\ g_routing_mutex = 0
    /\ g_routing_mutex' = t
    /\ th' = [th EXCEPT ![t].pc = "cs"]
    /\ UNCHANGED <<engineVars, g_routing_table, now>>

\* The failure path that returns with the mutex still held.
NoUnlockAfterFailedMalloc(holder) == holder

\* if (!entry) { pthread_mutex_unlock(&g_routing_mutex); ..: the holder of
\* the mutex after it.
UnlockAfterFailedMalloc(holder) == 0

\* The scan, then the overwrite of the match or the insertion of a new entry,
\* and the unlock on each of the three return paths. malloc is called once;
\* it may fail at any time and fails when the heap is exhausted.
RouteBody(t) ==
    /\ At(t, "update_routing_entry", "cs")
    /\ g_routing_mutex = t
    /\ LET id == th[t].a1.s
           i == FindEntry(g_routing_table, id)
       IN  IF i > 0
           THEN \E tm \in Times :
                   /\ Time(tm)
                   /\ g_routing_table' =
                         TableUpdate(g_routing_table, i, th[t].a2, th[t].a3, tm)
                   /\ g_routing_mutex' = 0
                   /\ th' = [th EXCEPT ![t] =
                               Returned(th[t], SYNC_SUCCESS, NoOut, "updated")]
           ELSE \E mallocOk \in BOOLEAN, tm \in Times :
                   IF mallocOk /\ Len(g_routing_table) < MaxEntries
                   THEN /\ Time(tm)
                        /\ g_routing_table' =
                              TableInsert(g_routing_table, id, th[t].a2, th[t].a3, tm)
                        /\ g_routing_mutex' = 0
                        /\ th' = [th EXCEPT ![t] =
                                    Returned(th[t], SYNC_SUCCESS, NoOut, "added")]
                   ELSE /\ tm = now
                        /\ UNCHANGED <<g_routing_table, now>>
                        /\ g_routing_mutex' = UnlockAfterFailedMalloc(g_routing_mutex)
                        /\ th' = [th EXCEPT ![t] =
                                    Returned(th[t], SYNC_ERROR_MEMORY_ALLOCATION,
                                             NoOut, "")]
    /\ UNCHANGED engineVars

\* cleanup_routing_table() is called.
RouteCleanupCall(t) ==
    /\ th[t].pc = "idle"
    /\ Invoke(t, "cleanup_routing_table", "lock", NoArg, NoArg, NoArg)
    /\ UNCHANGED <<engineVars, routingVars, now>>

\* Every entry is freed, the head is set to NULL, the mutex is released.
RouteCleanupBody(t) ==
    /\ At(t, "cleanup_routing_table", "cs")
    /\ g_routing_mutex = t
    /\ g_routing_table' = <<>>
    /\ g_routing_mutex' = 0
    /\ th' = [th EXCEPT ![t] = Returned(th[t], SYNC_SUCCESS, NoOut, "cleaned")]
    /\ UNCHANGED <<engineVars, now>>

\* ------------------------------------------------------------- engine
\* static sync_algorithm_status_t g_status = {0};
ZeroStatus ==
    [algorithm_running |-> FALSE, total_ue_count |-> 0,
     active_handover_count |-> 0, last_update_time |-> 0,
     total_handover_count |-> 0, successful_handover_count |-> 0,
     average_handover_latency |-> 0]

\* The entry points that take g_mutex.
EngineLockOps ==
    {"sync_algorithm_init", "sync_algorithm_cleanup", "sync_algorithm_register_ue",
     "sync_algorithm_unregister_ue", "sync_algorithm_trigger_handover",
     "sync_algorithm_get_status", "sync_algorithm_start_periodic_update",
     "sync_algorithm_stop_periodic_update"}

\* A call whose opening test fails returns SYNC_ERROR_INVALID_PARAM at once,
\* the caller still holding what it passed; otherwise the thread stands at
\* pthread_mutex_lock.
Checked(t, o, bad, x, y) ==
    LET f == Frame(o, "lock", x, y, NoArg)
    IN  th' = [th EXCEPT ![t] =
                  IF bad THEN [f EXCEPT !.pc = "ret", !.ret = SYNC_ERROR_INVALID_PARAM]
                  ELSE f]

\* pthread_mutex_lock(&g_mutex)
EngineLock(t) ==
    /\ th[t].op \in EngineLockOps
    /\ th[t].pc = "lock"
    /\ g_mutex = 0
    /\ g_mutex' = t
    /\ th' = [th EXCEPT ![t].pc = "cs"]
    /\ UNCHANGED <<g_initialized, g_status, registry, net, floored, routingVars, now>>

\* The init without its memset.
InitStatusNoMemset(st, tm) ==
    [st EXCEPT !.algorithm_running = FALSE, !.last_update_time = tm]

\* sync_algorithm_init: memset(&g_status, 0, ..); algorithm_running = false;
\* last_update_time = time(NULL)
InitStatus(st, tm) == [ZeroStatus EXCEPT !.last_update_time = tm]

\* The init that never takes the early return.
InitNeverNoop(initialized) == FALSE

\* sync_algorithm_init: if (g_initialized)
InitIsNoop(initialized) == initialized

InitCall(t) ==
    /\ th[t].pc = "idle"
    /\ Invoke(t, "sync_algorithm_init", "lock", NoArg, NoArg, NoArg)
    /\ UNCHANGED <<engineVars, routingVars, now>>

\* The early return that leaves the mutex held.
NoUnlockOnEarlyReturn(holder) == holder

\* if (g_initialized) { pthread_mutex_unlock(&g_mutex); ..: the holder of the
\* mutex after it.
UnlockOnEarlyReturn(holder) == 0

InitBody(t) ==
    /\ At(t, "sync_algorithm_init", "cs")
    /\ g_mutex = t
    /\ IF InitIsNoop(g_initialized)
       THEN /\ UNCHANGED <<g_initialized, g_status, registry, net, floored, now>>
            /\ g_mutex' = UnlockOnEarlyReturn(g_mutex)
            /\ th' = [th EXCEPT ![t] = Returned(th[t], SYNC_SUCCESS, NoOut, "")]
       ELSE \E tm \in Times :
               /\ Time(tm)
               /\ g_status' = InitStatus(g_status, tm)
               /\ g_initialized' = TRUE
               /\ g_mutex' = 0
               /\ registry' = {}
               /\ net' = 0
               /\ floored' = 0
               /\ th' = [th EXCEPT ![t] =
                           Returned(th[t], SYNC_SUCCESS, NoOut, "initialized")]
    /\ UNCHANGED routingVars

\* sync_algorithm_cleanup returns nothing; its frame's ret stays SYNC_SUCCESS.
CleanupCall(t) ==
    /\ th[t].pc = "idle"
    /\ Invoke(t, "sync_algorithm_cleanup", "lock", NoArg, NoArg, NoArg)
    /\ UNCHANGED <<engineVars, routingVars, now>>

CleanupBody(t) ==
    /\ At(t, "sync_algorithm_cleanup", "cs")
    /\ g_mutex = t
    /\ g_initialized' = FALSE
    /\ g_status' = [g_status EXCEPT !.algorithm_running = FALSE]
    /\ g_mutex' = 0
    /\ th' = [th EXCEPT ![t] = Returned(th[t], SYNC_SUCCESS, NoOut, "cleaned")]
    /\ UNCHANGED <<registry, net, floored, routingVars, now>>

\* g_status.total_ue_count++
UeCountInc(c) == c + 1

\* The decrement with the floor one too high.
UeCountDecOffByOne(c) == IF c > 1 THEN c - 1 ELSE c

\* The decrement without the floor.
UeCountDecNoFloor(c) == c - 1

\* if (g_status.total_ue_count > 0) g_status.total_ue_count--;
UeCountDec(c) == IF c > 0 THEN c - 1 ELSE c

\* sync_algorithm_register_ue(ue_context): if (!ue_context || !g_initialized)
RegisterCall(t) ==
    /\ th[t].pc = "idle"
    /\ g_status.total_ue_count < MaxCount
    /\ \E ctx \in UeArgs :
          Checked(t, "sync_algorithm_register_ue", ctx.null \/ ~g_initialized,
                  ctx, NoArg)
    /\ UNCHANGED <<engineVars, routingVars, now>>

RegisterBody(t) ==
    /\ At(t, "sync_algorithm_register_ue", "cs")
    /\ g_mutex = t
    /\ g_status' = [g_status EXCEPT
                       !.total_ue_count = UeCountInc(g_status.total_ue_count)]
    /\ g_mutex' = 0
    /\ registry' = registry \cup {th[t].a1}
    /\ net' = net + 1
    /\ th' = [th EXCEPT ![t] = Returned(th[t], SYNC_SUCCESS, NoOut, "registered")]
    /\ UNCHANGED <<g_initialized, floored, routingVars, now>>

\* sync_algorithm_unregister_ue(ue_id): if (!ue_id || !g_initialized)
UnregisterCall(t) ==
    /\ th[t].pc = "idle"
    /\ floored < MaxCount
    /\ \E id \in UeArgs :
          Checked(t, "sync_algorithm_unregister_ue", id.null \/ ~g_initialized,
                  id, NoArg)
    /\ UNCHANGED <<engineVars, routingVars, now>>

UnregisterBody(t) ==
    /\ At(t, "sync_algorithm_unregister_ue", "cs")
    /\ g_mutex = t
    /\ g_status' = [g_status EXCEPT
                       !.total_ue_count = UeCountDec(g_status.total_ue_count)]
    /\ g_mutex' = 0
    /\ registry' = registry \ {th[t].a1}
    /\ net' = net - 1
    /\ floored' = IF g_status.total_ue_count > 0 THEN floored ELSE floored + 1
    /\ th' = [th EXCEPT ![t] = Returned(th[t], SYNC_SUCCESS, NoOut, "unregistered")]
    /\ UNCHANGED <<g_initialized, routingVars, now>>

\* The handover that counts its success and forgets the total.
HandoverStatusSuccessOnly(st, tm) ==
    [st EXCEPT !.successful_handover_count = @ + 1,
               !.last_update_time = tm]

\* sync_algorithm_trigger_handover: total_handover_count++;
\* successful_handover_count++; last_update_time = time(NULL)
HandoverStatus(st, tm) ==
    [st EXCEPT !.total_handover_count = @ + 1,
               !.successful_handover_count = @ + 1,
               !.last_update_time = tm]

\* The handover that fails for a subscriber it does not know, its counters
\* already raised.
HandoverResultNotFound(isRegistered) ==
    IF isRegistered THEN SYNC_SUCCESS ELSE SYNC_ERROR_UE_NOT_FOUND

\* The result of sync_algorithm_trigger_handover for a subscriber that is or
\* is not registered: the function keeps no record of subscribers.
HandoverResult(isRegistered) == SYNC_SUCCESS

\* sync_algorithm_trigger_handover(ue_id, target_satellite_id, predicted_time):
\* if (!ue_id || !target_satellite_id || !g_initialized); predicted_time is
\* only printed.
TriggerCall(t) ==
    /\ th[t].pc = "idle"
    /\ g_status.total_handover_count < MaxCount
    /\ \E id \in UeArgs, sat \in SatArgs :
          Checked(t, "sync_algorithm_trigger_handover",
                  id.null \/ sat.null \/ ~g_initialized, id, sat)
    /\ UNCHANGED <<engineVars, routingVars, now>>

TriggerBody(t) ==
    /\ At(t, "sync_algorithm_trigger_handover", "cs")
    /\ g_mutex = t
    /\ \E tm \in Times :
          /\ Time(tm)
          /\ g_status' = HandoverStatus(g_status, tm)
    /\ g_mutex' = 0
    /\ th' = [th EXCEPT ![t] =
                Returned(th[t], HandoverResult(th[t].a1 \in registry), NoOut,
                         "handover")]
    /\ UNCHANGED <<g_initialized, registry, net, floored, routingVars>>

\* sync_algorithm_get_status(status): if (!status || !g_initialized)
GetStatusCall(t) ==
    /\ th[t].pc = "idle"
    /\ \E ptr \in PtrArgs :
          Checked(t, "sync_algorithm_get_status", ptr = "null" \/ ~g_initialized,
                  ptr, NoArg)
    /\ UNCHANGED <<engineVars, routingVars, now>>

\* memcpy(status, &g_status, sizeof(sync_algorithm_status_t)) copies the
\* structure from its first byte to its last and is no single step: it is
\* taken here in two, the fields before last_update_time and the fields from
\* it on. Only the mutex keeps a writer from running between the two.
StatusHead == {"algorithm_running", "total_ue_count", "active_handover_count"}
StatusTail == DOMAIN ZeroStatus \ StatusHead

CopyHead(st) == [f \in StatusHead |-> st[f]]

\* The second half of the copy that leaves the caller's buffer as it was.
CopyTailStale(part, st) == part @@ [f \in StatusTail |-> ZeroStatus[f]]

CopyTail(part, st) == part @@ [f \in StatusTail |-> st[f]]

GetStatusCopy(t) ==
    /\ At(t, "sync_algorithm_get_status", "cs")
    /\ g_mutex = t
    /\ th' = [th EXCEPT ![t].pc = "copy", ![t].out = CopyHead(g_status)]
    /\ UNCHANGED <<engineVars, routingVars, now>>

\* The rest of the memcpy, pthread_mutex_unlock, return SYNC_SUCCESS.
GetStatusBody(t) ==
    /\ At(t, "sync_algorithm_get_status", "copy")
    /\ g_mutex = t
    /\ g_mutex' = 0
    /\ th' = [th EXCEPT ![t] =
                Returned(th[t], SYNC_SUCCESS, CopyTail(th[t].out, g_status), "")]
    /\ UNCHANGED <<g_initialized, g_status, registry, net, floored, routingVars, now>>

\* sync_algorithm_update_ue_position(ue_id, ..): if (!ue_id || !g_initialized),
\* then only a printf.
UpdatePosition(t) ==
    /\ th[t].pc = "idle"
    /\ \E id \in UeArgs :
          LET f == Frame("sync_algorithm_update_ue_position", "body", id, NoArg, NoArg)
          IN  th' = [th EXCEPT ![t] =
                        IF id.null \/ ~g_initialized
                        THEN Returned(f, SYNC_ERROR_INVALID_PARAM, NoOut, "")
                        ELSE Returned(f, SYNC_SUCCESS, NoOut, "position")]
    /\ UNCHANGED <<engineVars, routingVars, now>>

\* sync_algorithm_start_periodic_update / sync_algorithm_stop_periodic_update:
\* if (!g_initialized)
StartCall(t) ==
    /\ th[t].pc = "idle"
    /\ Checked(t, "sync_algorithm_start_periodic_update", ~g_initialized, NoArg, NoArg)
    /\ UNCHANGED <<engineVars, routingVars, now>>

StopCall(t) ==
    /\ th[t].pc = "idle"
    /\ Checked(t, "sync_algorithm_stop_periodic_update", ~g_initialized, NoArg, NoArg)
    /\ UNCHANGED <<engineVars, routingVars, now>>

\* g_status.algorithm_running = true / false
RunningBody(t, o, running) ==
    /\ At(t, o, "cs")
    /\ g_mutex = t
    /\ g_status' = [g_status EXCEPT !.algorithm_running = running]
    /\ g_mutex' = 0
    /\ th' = [th EXCEPT ![t] =
                Returned(th[t], SYNC_SUCCESS, NoOut,
                         IF running THEN "started" ELSE "stopped")]
    /\ UNCHANGED <<g_initialized, registry, net, floored, routingVars, now>>

StartBody(t) == RunningBody(t, "sync_algorithm_start_periodic_update", TRUE)
StopBody(t) == RunningBody(t, "sync_algorithm_stop_periodic_update", FALSE)

\* The functions that are a bare return SYNC_SUCCESS, or a printf and that.
StubOps ==
    {"sync_algorithm_get_ue_context", "sync_algorithm_get_satellite_info",
     "sync_algorithm_update_routing_table"}

\* A function that takes no lock is called.
StubCall(t) ==
    /\ th[t].pc = "idle"
    /\ \/ \E o \in StubOps :
             Invoke(t, o, "body", Ue(1), NoArg, NoArg)
       \/ \E p \in ParamArgs :
             Invoke(t, "sync_algorithm_set_parameters", "body", p[1], p[2], NoArg)
       \/ \E r \in RecentArgs :
             Invoke(t, "sync_algorithm_get_recent_handover_events", "body",
                    "valid", r[1], r[2])
    /\ UNCHANGED <<engineVars, routingVars, now>>

\* sync_algorithm_get_ue_context, sync_algorithm_get_satellite_info,
\* sync_algorithm_update_routing_table: return SYNC_SUCCESS;
StubResult(o, x, y) == SYNC_SUCCESS

\* sync_algorithm_set_parameters: printf; return SYNC_SUCCESS;
SetParametersResult(delta, precision) == SYNC_SUCCESS

\* sync_algorithm_get_recent_handover_events: if (actual_count) *actual_count = 0;
\* what *actual_count holds at return, given the handovers recorded so far.
RecentCount(maxEvents, handovers) == 0

StubBody(t) ==
    /\ th[t].pc = "body"
    /\ th[t].op \in StubOps
    /\ th' = [th EXCEPT ![t] =
                [Returned(th[t], StubResult(th[t].op, th[t].a1, th[t].a2), NoOut, "")
                    EXCEPT !.un = ~g_initialized]]
    /\ UNCHANGED <<engineVars, routingVars, now>>

SetParametersBody(t) ==
    /\ At(t, "sync_algorithm_set_parameters", "body")
    /\ th' = [th EXCEPT ![t] =
                [Returned(th[t], SetParametersResult(th[t].a1, th[t].a2), NoOut,
                          "parameters")
                    EXCEPT !.un = ~g_initialized]]
    /\ UNCHANGED <<engineVars, routingVars, now>>

RecentEventsBody(t) ==
    /\ At(t, "sync_algorithm_get_recent_handover_events", "body")
    /\ th' = [th EXCEPT ![t] =
                [Returned(th[t], SYNC_SUCCESS,
                          IF th[t].a3 = "valid"
                          THEN RecentCount(th[t].a2, g_status.total_handover_count)
                          ELSE NoOut,
                          "")
                    EXCEPT !.un = ~g_initialized]]
    /\ UNCHANGED <<engineVars, routingVars, now>>

\* The caller goes on after the call.
Return(t) ==
    /\ th[t].pc = "ret"
    /\ th' = [th EXCEPT ![t] = Idle]
    /\ UNCHANGED <<engineVars, routingVars, now>>

\* --------------------------------------------------------------- init
Init ==
    /\ g_initialized = FALSE
    /\ g_mutex = 0
    /\ g_status = ZeroStatus
    /\ g_routing_table = <<>>
    /\ g_routing_mutex = 0
    /\ now = 0
    /\ th = [t \in Threads |-> Idle]
    /\ registry = {}
    /\ net = 0
    /\ floored = 0

RoutingNext ==
    \/ \E t \in Callers : RouteCall(t)
    \/ \E t \in Callers : RouteLock(t)
    \/ \E t \in Callers : RouteBody(t)
    \/ \E t \in Callers : RouteCleanupCall(t)
    \/ \E t \in Callers : RouteCleanupBody(t)
    \/ \E t \in Callers : Return(t)

RoutingSpec == Init /\ [][RoutingNext]_vars

\* The entry points that take g_mutex.
CoreNext ==
    \/ \E t \in Callers : InitCall(t)
    \/ \E t \in Callers : InitBody(t)
    \/ \E t \in Callers : CleanupCall(t)
    \/ \E t \in Callers : CleanupBody(t)
    \/ \E t \in Callers : RegisterCall(t)
    \/ \E t \in Callers : RegisterBody(t)
    \/ \E t \in Callers : UnregisterCall(t)
    \/ \E t \in Callers : UnregisterBody(t)
    \/ \E t \in Callers : TriggerCall(t)
    \/ \E t \in Callers : TriggerBody(t)
    \/ \E t \in Callers : GetStatusCall(t)
    \/ \E t \in Callers : GetStatusCopy(t)
    \/ \E t \in Callers : GetStatusBody(t)
    \/ \E t \in Callers : StartCall(t)
    \/ \E t \in Callers : StartBody(t)
    \/ \E t \in Callers : StopCall(t)
    \/ \E t \in Callers : StopBody(t)
    \/ \E t \in Callers : EngineLock(t)
    \/ \E t \in Callers : Return(t)

CoreSpec == Init /\ [][CoreNext]_vars

\* Every entry point of sync_algorithm_bridge.c.
Next ==
    \/ CoreNext
    \/ \E t \in Callers : UpdatePosition(t)
    \/ \E t \in Callers : StubCall(t)
    \/ \E t \in Callers : StubBody(t)
    \/ \E t \in Callers : SetParametersBody(t)
    \/ \E t \in Callers : RecentEventsBody(t)

Spec == Init /\ [][Next]_vars

\* ------------------------------------------------ the two mutexes
\* Threads calling into both translation units, for what concerns the two
\* mutexes: which thread holds which, and where each thread stands. Which
\* mutex a call takes and where it releases it depends on no datum but the
\* outcome of its opening test, of the scan and of malloc, so the data are
\* held small: update_routing_entry is called with the short id and one
\* endpoint, every time(NULL) returns the same second, and the engine's
\* pointer arguments are not null (its opening test still fails on an engine
\* that is not initialized).
LockBound ==
    /\ now = 0
    /\ \A t \in Callers :
          (th[t].op = "update_routing_entry" /\ th[t].pc /= "ret") =>
             /\ th[t].a1 = Str(IdA)
             /\ th[t].a2 = 1
    /\ \A t \in Callers :
          (/\ th[t].op \in {"sync_algorithm_register_ue",
                            "sync_algorithm_unregister_ue",
                            "sync_algorithm_trigger_handover"}
           /\ ~(th[t].pc = "ret" /\ th[t].ret = SYNC_SUCCESS))
          => /\ ~th[t].a1.null
             /\ th[t].op = "sync_algorithm_trigger_handover" => ~th[t].a2.null
    /\ \A t \in Callers :
          th[t].op = "sync_algorithm_get_status" => th[t].a1 /= "null"

\* pthread_mutex_lock returns to t.
LockStep(t) == (RouteLock(t) \/ EngineLock(t)) /\ LockBound'

\* t runs a critical section to its unlock, or the first half of the memcpy.
BodyStep(t) ==
    /\ \/ RouteBody(t)
       \/ RouteCleanupBody(t)
       \/ InitBody(t)
       \/ CleanupBody(t)
       \/ RegisterBody(t)
       \/ UnregisterBody(t)
       \/ TriggerBody(t)
       \/ GetStatusCopy(t)
       \/ GetStatusBody(t)
       \/ StartBody(t)
       \/ StopBody(t)
    /\ LockBound'

LockNext ==
    \/ \E t \in Callers : RouteCall(t) /\ LockBound'
    \/ \E t \in Callers : RouteLock(t) /\ LockBound'
    \/ \E t \in Callers : RouteBody(t) /\ LockBound'
    \/ \E t \in Callers : RouteCleanupCall(t) /\ LockBound'
    \/ \E t \in Callers : RouteCleanupBody(t) /\ LockBound'
    \/ \E t \in Callers : InitCall(t) /\ LockBound'
    \/ \E t \in Callers : InitBody(t) /\ LockBound'
    \/ \E t \in Callers : CleanupCall(t) /\ LockBound'
    \/ \E t \in Callers : CleanupBody(t) /\ LockBound'
    \/ \E t \in Callers : RegisterCall(t) /\ LockBound'
    \/ \E t \in Callers : RegisterBody(t) /\ LockBound'
    \/ \E t \in Callers : UnregisterCall(t) /\ LockBound'
    \/ \E t \in Callers : UnregisterBody(t) /\ LockBound'
    \/ \E t \in Callers : TriggerCall(t) /\ LockBound'
    \/ \E t \in Callers : TriggerBody(t) /\ LockBound'
    \/ \E t \in Callers : GetStatusCall(t) /\ LockBound'
    \/ \E t \in Callers : GetStatusCopy(t) /\ LockBound'
    \/ \E t \in Callers : GetStatusBody(t) /\ LockBound'
    \/ \E t \in Callers : StartCall(t) /\ LockBound'
    \/ \E t \in Callers : StartBody(t) /\ LockBound'
    \/ \E t \in Callers : StopCall(t) /\ LockBound'
    \/ \E t \in Callers : StopBody(t) /\ LockBound'
    \/ \E t \in Callers : EngineLock(t) /\ LockBound'
    \/ \E t \in Callers : Return(t) /\ LockBound'

\* The scheduler runs every thread that can run, and a thread waiting in
\* pthread_mutex_lock for a mutex that is free again and again is given it.
LockFairness ==
    \A t \in Callers : WF_vars(BodyStep(t)) /\ SF_vars(LockStep(t))

LockSpec == Init /\ [][LockNext]_vars /\ LockFairness

\* ------------------------------------------- the register scenario
\* One thread initializes the engine; then each of NReg threads registers a
\* subscriber of its own; once all of these calls have returned each thread
\* unregisters its subscriber; once all of those have returned the threads
\* read the status.
RegThreads == 1 .. NReg

RegRegistered(u) ==
    \/ At(u, "sync_algorithm_register_ue", "ret")
    \/ th[u].op = "sync_algorithm_unregister_ue"

RegUnregistered(u) ==
    \/ At(u, "sync_algorithm_unregister_ue", "ret")
    \/ th[u].op = "sync_algorithm_get_status"

RegSetup ==
    /\ ~g_initialized
    /\ InitCall(1)

RegSetupDone ==
    /\ th[1].op = "sync_algorithm_init"
    /\ Return(1)

RegRegister(t) ==
    /\ th[t].pc = "idle"
    /\ g_initialized
    /\ Checked(t, "sync_algorithm_register_ue", Ue(t).null \/ ~g_initialized,
               Ue(t), NoArg)
    /\ UNCHANGED <<engineVars, routingVars, now>>

RegUnregister(t) ==
    /\ At(t, "sync_algorithm_register_ue", "ret")
    /\ \A u \in RegThreads : RegRegistered(u)
    /\ Checked(t, "sync_algorithm_unregister_ue", Ue(t).null \/ ~g_initialized,
               Ue(t), NoArg)
    /\ UNCHANGED <<engineVars, routingVars, now>>

RegGetStatus(t) ==
    /\ At(t, "sync_algorithm_unregister_ue", "ret")
    /\ \A u \in RegThreads : RegUnregistered(u)
    /\ Checked(t, "sync_algorithm_get_status", ~g_initialized, "valid", NoArg)
    /\ UNCHANGED <<engineVars, routingVars, now>>

RegNext ==
    \/ RegSetup
    \/ RegSetupDone
    \/ \E t \in RegThreads : EngineLock(t)
    \/ \E t \in RegThreads : InitBody(t)
    \/ \E t \in RegThreads : RegRegister(t)
    \/ \E t \in RegThreads : RegisterBody(t)
    \/ \E t \in RegThreads : RegUnregister(t)
    \/ \E t \in RegThreads : UnregisterBody(t)
    \/ \E t \in RegThreads : RegGetStatus(t)
    \/ \E t \in RegThreads : GetStatusCopy(t)
    \/ \E t \in RegThreads : GetStatusBody(t)

RegSpec == Init /\ [][RegNext]_vars

\* ============================================================== claims
RouteOp == "update_routing_entry"

\* The lookup of a subscriber id: the scan of the table for the first entry
\* whose key equals the id, and that entry's endpoint.
Lookup(table, id) ==
    LET i == FindEntry(table, id)
    IN  IF i = 0 THEN <<"NotFound">> ELSE <<table[i].gnb_ip, table[i].gnb_port>>

\* C1: the routing table never holds two entries with the same subscriber
\* identifier, whatever ids (of whatever length) update_routing_entry was
\* called with.
C1_UniqueKeys ==
    \A i, j \in 1 .. Len(g_routing_table) :
        i /= j => g_routing_table[i].ue_id /= g_routing_table[j].ue_id

\* C2: a successful update_routing_entry(id, ip, port) with an id that fits
\* the subscriber-id buffer (at most UE_ID_SIZE - 1 characters) leaves the
\* table such that the lookup of id returns exactly (ip, port), whether the
\* entry was created or overwritten.
C2_RoundTrip ==
    [][\A t \in Callers :
          (/\ At(t, RouteOp, "cs")
           /\ Len(th[t].a1.s) <= UE_ID_SIZE - 1
           /\ th'[t].pc = "ret"
           /\ th'[t].ret = SYNC_SUCCESS)
          => Lookup(g_routing_table', th[t].a1.s) = <<th[t].a2, th[t].a3>>]_vars

\* A call has overwritten an entry, and the entry of the id that fills the
\* key buffer exactly holds the second endpoint.
C2_Witness ==
    \E t \in Callers :
        /\ At(t, RouteOp, "ret")
        /\ th[t].ret = SYNC_SUCCESS
        /\ th[t].msg = "updated"
        /\ Lookup(g_routing_table, IdFull) = <<2, 2>>
        /\ Lookup(g_routing_table, IdA) = <<1, 1>>

\* C3: after NReg concurrent registers of distinct subscribers and, once they
\* have returned, NReg concurrent unregisters of the same subscribers,
\* get_status succeeds and reports total_ue_count = 0, and no unregister
\* found the count already at 0 (no increment was lost).
C3_NoLostUpdate ==
    /\ \A t \in RegThreads :
          At(t, "sync_algorithm_get_status", "ret") =>
             /\ th[t].ret = SYNC_SUCCESS
             /\ th[t].out.total_ue_count = 0
    /\ (\A u \in RegThreads : RegUnregistered(u)) =>
          /\ g_status.total_ue_count = 0
          /\ floored = 0
          /\ net = 0

\* Every thread has registered, unregistered and read the status.
C3_Witness ==
    \A t \in RegThreads :
        /\ At(t, "sync_algorithm_get_status", "ret")
        /\ th[t].out.total_ue_count = 0

\* C4 as claimed: on an initialized engine total_ue_count is the number of
\* successful registers minus the number of successful unregisters since the
\* last initialization, and is not negative.
C4_NetOfCalls ==
    g_initialized =>
        /\ g_status.total_ue_count = net
        /\ g_status.total_ue_count >= 0

\* C4 as amended: on an initialized engine total_ue_count is the number of
\* successful registers minus the number of successful unregisters that found
\* the count above 0 (an unregister at 0 succeeds and leaves it 0), and is
\* not negative.
C4_NetFloored ==
    g_initialized =>
        /\ g_status.total_ue_count = net + floored
        /\ g_status.total_ue_count >= 0

\* An unregister found the count at 0 and a later register has counted.
C4_Witness ==
    /\ g_initialized
    /\ floored > 0
    /\ g_status.total_ue_count > 0

\* C5: sync_algorithm_init on an initialized engine returns SYNC_SUCCESS and
\* leaves every field of the status, and the initialized flag, as they were.
C5_InitIdempotent ==
    [][\A t \in Callers :
          (/\ At(t, "sync_algorithm_init", "cs")
           /\ g_initialized
           /\ th'[t].pc = "ret")
          => /\ th'[t].ret = SYNC_SUCCESS
             /\ g_status' = g_status
             /\ g_initialized']_vars

\* A second init has returned without initializing, the counters and the
\* running flag set by earlier calls still standing.
C5_Witness ==
    \E t \in Callers :
        /\ At(t, "sync_algorithm_init", "ret")
        /\ th[t].msg = ""
        /\ g_initialized
        /\ g_status.total_ue_count > 0
        /\ g_status.total_handover_count > 0
        /\ g_status.algorithm_running

\* The operational entry points: all but sync_algorithm_init and
\* sync_algorithm_cleanup.
OperationalOps ==
    (EngineLockOps \ {"sync_algorithm_init", "sync_algorithm_cleanup"})
    \cup StubOps
    \cup {"sync_algorithm_update_ue_position", "sync_algorithm_set_parameters",
          "sync_algorithm_get_recent_handover_events"}

\* C6: an operational entry point that ran while the engine was not
\* initialized (before sync_algorithm_init or after sync_algorithm_cleanup)
\* does not return SYNC_SUCCESS.
C6_NotInitializedFails ==
    \A t \in Callers :
        (/\ th[t].pc = "ret"
         /\ th[t].op \in OperationalOps
         /\ th[t].un)
        => th[t].ret /= SYNC_SUCCESS

\* The handover counters.
HandoverCounts(st) == <<st.total_handover_count, st.successful_handover_count>>

\* C7: sync_algorithm_trigger_handover for a subscriber that is not registered
\* returns SYNC_ERROR_UE_NOT_FOUND and leaves total_handover_count and
\* successful_handover_count as they were.
C7_UnknownUeFails ==
    [][\A t \in Callers :
          (/\ At(t, "sync_algorithm_trigger_handover", "cs")
           /\ th[t].a1 \notin registry
           /\ th'[t].pc = "ret")
          => /\ th'[t].ret = SYNC_ERROR_UE_NOT_FOUND
             /\ HandoverCounts(g_status') = HandoverCounts(g_status)]_vars

\* C8: each successful trigger_handover counts in total_handover_count and
\* successful_handover_count alike, and get_recent_handover_events called
\* with room for max_events >= 1 events on an initialized engine that has
\* completed at least one handover reports actual_count >= 1.
C8_HandoverIsReported ==
    [][\A t \in Callers :
          /\ (/\ At(t, "sync_algorithm_trigger_handover", "cs")
               /\ th'[t].pc = "ret"
               /\ th'[t].ret = SYNC_SUCCESS)
              => /\ g_status'.total_handover_count =
                       g_status.total_handover_count + 1
                 /\ g_status'.successful_handover_count =
                       g_status.successful_handover_count + 1
          /\ (/\ At(t, "sync_algorithm_get_recent_handover_events", "body")
               /\ th[t].a2 >= 1
               /\ th[t].a3 = "valid"
               /\ g_initialized
               /\ g_status.successful_handover_count >= 1
               /\ th'[t].pc = "ret")
              => /\ th'[t].ret = SYNC_SUCCESS
                 /\ th'[t].out = Min(th[t].a2, g_status.successful_handover_count)]_vars

\* C9: when sync_algorithm_trigger_handover returns SYNC_SUCCESS the routing
\* table holds an entry for its ue_id.
C9_HandoverUpdatesRouting ==
    [][\A t \in Callers :
          (/\ At(t, "sync_algorithm_trigger_handover", "cs")
           /\ th'[t].pc = "ret"
           /\ th'[t].ret = SYNC_SUCCESS)
          => FindEntry(g_routing_table', th[t].a1.s) > 0]_vars

\* C10: sync_algorithm_set_parameters with delta_t <= 0 or
\* binary_search_precision <= 0 returns SYNC_ERROR_INVALID_PARAM.
C10_RejectsNonPositive ==
    [][\A t \in Callers :
          (/\ At(t, "sync_algorithm_set_parameters", "body")
           /\ (th[t].a1 <= 0 \/ th[t].a2 <= 0)
           /\ th'[t].pc = "ret")
          => th'[t].ret = SYNC_ERROR_INVALID_PARAM]_vars

\* C11: update_routing_entry called with no subscriber id (the null pointer)
\* or with the empty string returns SYNC_ERROR_INVALID_PARAM and leaves the
\* routing table as it was.
C11_EmptyIdRejected ==
    [][\A t \in Callers :
          /\ (/\ th[t].pc = "idle"
              /\ th'[t].op = RouteOp
              /\ th'[t].pc = "ret")
             => /\ th'[t].ret = SYNC_ERROR_INVALID_PARAM
                /\ g_routing_table' = g_routing_table
          /\ (/\ At(t, RouteOp, "cs")
              /\ th[t].a1.s = IdEmpty
              /\ th'[t].pc = "ret")
             => /\ th'[t].ret = SYNC_ERROR_INVALID_PARAM
                /\ g_routing_table' = g_routing_table]_vars

GetStatusOp == "sync_algorithm_get_status"

\* C12: no step of a sync_algorithm_get_status call changes a field of the
\* status or the initialized flag, and the copy the call returns is the whole
\* status as it stands when the call returns: every field of it is of that
\* one moment, whatever the other thread was calling meanwhile.
C12_AtomicSnapshot ==
    [][\A t \in Callers :
          /\ (/\ th'[t] /= th[t]
              /\ (th[t].op = GetStatusOp \/ th'[t].op = GetStatusOp))
             => /\ g_status' = g_status
                /\ g_initialized' = g_initialized
          /\ (/\ At(t, GetStatusOp, "copy")
              /\ th'[t].pc = "ret")
             => /\ th'[t].ret = SYNC_SUCCESS
                /\ th'[t].out = g_status]_vars

\* A get_status has returned a copy with a subscriber and a handover counted
\* and the algorithm running, while the other thread stands at the lock with
\* a call that writes the status.
C12_Witness ==
    \E t, u \in Callers :
        /\ At(t, GetStatusOp, "ret")
        /\ th[t].ret = SYNC_SUCCESS
        /\ th[t].out = g_status
        /\ th[t].out.total_ue_count > 0
        /\ th[t].out.total_handover_count > 0
        /\ th[t].out.algorithm_running
        /\ At(u, "sync_algorithm_stop_periodic_update", "lock")

\* The arguments of a call of an entry point that takes g_mutex are valid:
\* no pointer among them is null.
ValidArgs(f) ==
    CASE f.op \in {"sync_algorithm_register_ue", "sync_algorithm_unregister_ue"} ->
            ~f.a1.null
      [] f.op = "sync_algorithm_trigger_handover" -> ~f.a1.null /\ ~f.a2.null
      [] f.op = GetStatusOp -> f.a1 = "valid"
      [] OTHER -> TRUE

\* The operational entry points that take g_mutex.
LockedOps == EngineLockOps \ {"sync_algorithm_init", "sync_algorithm_cleanup"}

\* C13: a step in which an engine call returns a non-success code leaves the
\* status (all four counters included), the initialized flag and the mutex
\* as they were; and whatever calls have failed before, a call made with
\* valid arguments on the initialized engine is accepted and every accepted
\* call returns SYNC_SUCCESS.
C13_FailureIsHarmless ==
    [][\A t \in Callers :
          /\ (/\ th[t].pc /= "ret"
              /\ th'[t].pc = "ret"
              /\ th'[t].op \in EngineLockOps
              /\ th'[t].ret /= SYNC_SUCCESS)
             => /\ g_status' = g_status
                /\ g_initialized' = g_initialized
                /\ g_mutex' = g_mutex
          /\ (/\ th[t].pc = "idle"
              /\ g_initialized
              /\ th'[t].op \in LockedOps
              /\ ValidArgs(th'[t]))
             => th'[t].pc = "lock"
          /\ (/\ th[t].op \in EngineLockOps
              /\ th[t].pc \in {"cs", "copy"}
              /\ th'[t].pc = "ret")
             => th'[t].ret = SYNC_SUCCESS]_vars

\* One thread's call was rejected on the initialized engine, the counters
\* standing above zero, and the other thread's handover has succeeded.
C13_Witness ==
    \E t, u \in Callers :
        /\ g_initialized
        /\ g_mutex = 0
        /\ th[u].pc = "ret"
        /\ th[u].op \in LockedOps
        /\ th[u].ret = SYNC_ERROR_INVALID_PARAM
        /\ ~th[u].un
        /\ At(t, "sync_algorithm_trigger_handover", "ret")
        /\ th[t].ret = SYNC_SUCCESS
        /\ g_status.total_ue_count > 0
        /\ g_status.total_handover_count > 0

\* C14: when the malloc of a new entry fails, update_routing_entry returns
\* SYNC_ERROR_MEMORY_ALLOCATION from that one attempt (with the heap
\* exhausted an insertion returns nothing else), the routing table is as it
\* was, and the table mutex is free: no thread that has returned holds it,
\* so a later update_routing_entry can take it.
C14_AllocationFailure ==
    [][\A t \in Callers :
          /\ (/\ At(t, RouteOp, "cs")
              /\ th'[t].pc = "ret"
              /\ th'[t].ret = SYNC_ERROR_MEMORY_ALLOCATION)
             => /\ FindEntry(g_routing_table, th[t].a1.s) = 0
                /\ g_routing_table' = g_routing_table
                /\ g_routing_mutex' = 0
          /\ (/\ At(t, RouteOp, "cs")
              /\ FindEntry(g_routing_table, th[t].a1.s) = 0
              /\ Len(g_routing_table) = MaxEntries
              /\ th'[t].pc = "ret")
             => th'[t].ret = SYNC_ERROR_MEMORY_ALLOCATION
          /\ th'[t].pc \in {"idle", "lock", "ret"} => g_routing_mutex' /= t]_vars

\* An insertion has failed on an exhausted heap and has not yet been
\* answered by its caller, and the other thread has since taken the table
\* mutex for an update of its own.
C14_Witness ==
    \E t, u \in Callers :
        /\ At(t, RouteOp, "ret")
        /\ th[t].ret = SYNC_ERROR_MEMORY_ALLOCATION
        /\ Len(g_routing_table) = MaxEntries
        /\ At(u, RouteOp, "cs")
        /\ g_routing_mutex = u

CleanupOp == "cleanup_routing_table"

\* The entries of old are the last Len(old) entries of new, in order.
KeptIn(old, new) ==
    /\ Len(new) >= Len(old)
    /\ \A j \in 1 .. Len(old) : new[j + (Len(new) - Len(old))] = old[j]

\* C15: update_routing_entry(id, ..) either fails and leaves the table as it
\* was, or overwrites the endpoint and timestamp of the one entry its scan
\* matched, or links one new entry keyed by id (as the key buffer holds it)
\* before the others; every other entry is left as it was, key, endpoint and
\* position, and for two distinct ids that fit the key buffer the lookup of
\* the one is not changed by the update of the other. No step but the body
\* of cleanup_routing_table removes an entry, and that body leaves the table
\* empty.
C15_FrameAndLifetime ==
    [][\A t \in Callers :
          /\ (/\ At(t, RouteOp, "cs")
              /\ th'[t].pc = "ret")
             => LET id == th[t].a1.s
                    i == FindEntry(g_routing_table, id)
                IN  /\ \/ /\ th'[t].ret /= SYNC_SUCCESS
                          /\ g_routing_table' = g_routing_table
                       \/ /\ th'[t].ret = SYNC_SUCCESS
                          /\ i > 0
                          /\ Len(g_routing_table') = Len(g_routing_table)
                          /\ g_routing_table'[i].ue_id = g_routing_table[i].ue_id
                          /\ \A j \in 1 .. Len(g_routing_table) :
                                j /= i => g_routing_table'[j] = g_routing_table[j]
                       \/ /\ th'[t].ret = SYNC_SUCCESS
                          /\ i = 0
                          /\ Len(g_routing_table') = Len(g_routing_table) + 1
                          /\ g_routing_table'[1].ue_id = Strncpy(id, UE_ID_SIZE - 1)
                          /\ KeptIn(g_routing_table, g_routing_table')
                    /\ \A other \in RouteIds :
                          (/\ other /= id
                           /\ Len(id) <= UE_ID_SIZE - 1
                           /\ Len(other) <= UE_ID_SIZE - 1)
                          => Lookup(g_routing_table', other) =
                                Lookup(g_routing_table, other)
          /\ (/\ At(t, CleanupOp, "cs")
              /\ th'[t].pc = "ret")
             => g_routing_table' = <<>>
          /\ (\A u \in Callers : ~At(u, CleanupOp, "cs"))
             => /\ Len(g_routing_table') >= Len(g_routing_table)
                /\ \A j \in 1 .. Len(g_routing_table) :
                      g_routing_table'[j + (Len(g_routing_table') - Len(g_routing_table))].ue_id
                         = g_routing_table[j].ue_id]_vars

\* An update has overwritten the older of two entries, later than the newer
\* one was linked, and the newer one still holds what it was created with.
C15_Witness ==
    \E t \in Callers :
        /\ At(t, RouteOp, "ret")
        /\ th[t].msg = "updated"
        /\ Len(g_routing_table) >= 2
        /\ g_routing_table[1].last_update < g_routing_table[2].last_update
        /\ g_routing_table[1].gnb_ip /= g_routing_table[2].gnb_ip

\* t holds no mutex.
HoldsNone(t) == g_mutex /= t /\ g_routing_mutex /= t

\* t is inside a call that has not returned.
Started(t) == th[t].pc \in {"lock", "cs", "copy", "body"}

\* C16: with threads calling the routing table and the engine in any
\* interleaving, no thread ever holds g_routing_mutex and g_mutex together, a
\* thread that is in no call, has returned or still waits for a mutex holds
\* none, and under fair scheduling every call that was started returns.
C16_NoDeadlock ==
    /\ [](\A t \in Callers : ~(g_mutex = t /\ g_routing_mutex = t))
    /\ [](\A t \in Callers : th[t].pc \in {"idle", "lock", "ret"} => HoldsNone(t))
    /\ \A t \in Callers : Started(t) ~> (th[t].pc = "ret")

\* Both mutexes are held at once, by different threads: one thread is in the
\* critical section of update_routing_entry, the other half way through the
\* memcpy of get_status.
C16_Witness ==
    \E t, u \in Callers :
        /\ At(t, RouteOp, "cs")
        /\ g_routing_mutex = t
        /\ At(u, GetStatusOp, "copy")
        /\ g_mutex = u

\* Every call has returned.
Quiescent == \A t \in Callers : th[t].pc \in {"idle", "ret"}

\* C17: once every call of init, cleanup, start_periodic_update and
\* stop_periodic_update has returned, algorithm_running is not true on an
\* engine that is not initialized.
C17_RunningOnlyInitialized ==
    Quiescent => ~(~g_initialized /\ g_status.algorithm_running)

\* The four counters of the status.
Counters(st) ==
    <<st.total_ue_count, st.total_handover_count, st.successful_handover_count,
      st.active_handover_count>>

\* C18: a register_ue, unregister_ue or trigger_handover that runs
\* concurrently with sync_algorithm_cleanup changes a counter only while the
\* engine is initialized: no step of such a call changes a counter in a state
\* where cleanup has taken effect and no init has followed. (The claim also
\* asks that the call began after the most recent initialization; this is
\* the part of it that needs no record of when a call began.)
C18_NoCountAfterCleanup ==
    [][\A t \in Callers :
          (/\ th[t].op \in {"sync_algorithm_register_ue",
                            "sync_algorithm_unregister_ue",
                            "sync_algorithm_trigger_handover"}
           /\ th[t].pc = "cs"
           /\ th'[t].pc = "ret"
           /\ Counters(g_status') /= Counters(g_status))
          => g_initialized]_vars

\* C19: in every state, whatever init, cleanup and trigger_handover calls
\* have run and however they interleave, successful_handover_count is at
\* most total_handover_count.
C19_SuccessfulAtMostTotal ==
    g_status.successful_handover_count <= g_status.total_handover_count

\* A handover has been counted and the other thread's cleanup has returned:
\* both counters stand at the same value above zero on an engine that is no
\* longer initialized.
C19_Witness ==
    \E t, u \in Callers :
        /\ At(t, "sync_algorithm_trigger_handover", "ret")
        /\ th[t].ret = SYNC_SUCCESS
        /\ At(u, "sync_algorithm_cleanup", "ret")
        /\ ~g_initialized
        /\ g_status.total_handover_count > 0
        /\ g_status.successful_handover_count = g_status.total_handover_count

\* C20: sync_algorithm_cleanup clears the initialized flag and
\* algorithm_running and leaves the four counters as they were; a
\* sync_algorithm_init that finds the engine not initialized returns
\* SYNC_SUCCESS and leaves it initialized with the four counters at 0 and
\* algorithm_running false, whatever they were before.
C20_FreshAfterCleanup ==
    [][\A t \in Callers :
          /\ (/\ At(t, "sync_algorithm_cleanup", "cs")
              /\ th'[t].pc = "ret")
             => /\ ~g_initialized'
                /\ ~g_status'.algorithm_running
                /\ Counters(g_status') = Counters(g_status)
          /\ (/\ At(t, "sync_algorithm_init", "cs")
              /\ ~g_initialized
              /\ th'[t].pc = "ret")
             => /\ th'[t].ret = SYNC_SUCCESS
                /\ g_initialized'
                /\ ~g_status'.algorithm_running
                /\ Counters(g_status') = <<0, 0, 0, 0>>]_vars

\* An init has started the engine afresh with its counters at 0 although a
\* handover had been counted, as the other thread's returned handover shows.
C20_Witness ==
    \E t, u \in Callers :
        /\ At(t, "sync_algorithm_init", "ret")
        /\ th[t].msg = "initialized"
        /\ At(u, "sync_algorithm_trigger_handover", "ret")
        /\ th[u].ret = SYNC_SUCCESS
        /\ g_initialized
        /\ Counters(g_status) = <<0, 0, 0, 0>>

====
